---- MODULE Spec2Model ----
(***************************************************************************)
(* Model of YahooFinanceScraper (src/main.py): the run() generator, the    *)
(* page extractor scrape_current_page, the paginator go_to_next_page and   *)
(* close(), driven against a browser whose page is chosen by the           *)
(* environment, and a caller that may close the scraper or invoke run()    *)
(* again.                                                                  *)
(*                                                                         *)
(* Text is a sequence of naturals; SP (0) is a whitespace character.       *)
(* A table row is the sequence of the texts of its <td> cells, a page is   *)
(* a sequence of rows.                                                     *)
(***************************************************************************)
EXTENDS Integers, Sequences, FiniteSets, TLC

\* ------------------------------------------------------------------ bounds
\* Longest listing the environment renders.
MaxPages == 3
\* Most rows of a table the extraction specification draws.
MaxRows == 3
\* Largest page_num the safety specification follows a run to.
MaxPageNum == 4
\* Number of pages up to which the liveness specification keeps the counter,
\* the list and the event log exact.
LiveHorizon == 3
\* Depth at which the interpreter refuses a further nested call of
\* scrape_current_page (RecursionError); the real limit is about 1000.
RecursionLimit == 4
\* Most close() calls (the caller's and run()'s own) followed on one scraper.
MaxQuits == 2
\* Most run() invocations followed on one scraper object.
MaxRuns == 2

\* ------------------------------------------------------------------- text
SP == 0
\* Python None, as a value comparable with texts.
None == <<-1>>

RECURSIVE LStrip(_)
LStrip(s) == IF s # <<>> /\ Head(s) = SP THEN LStrip(Tail(s)) ELSE s

RECURSIVE RStrip(_)
RStrip(s) ==
    IF s # <<>> /\ s[Len(s)] = SP THEN RStrip(SubSeq(s, 1, Len(s) - 1)) ELSE s

\* str.strip()
Strip(s) == LStrip(RStrip(s))

\* Cell texts of a row of n cells: cell i (0-based) of row tag carries the
\* character 16 * tag + i, padded with whitespace when pad is set.
MkRow(tag, n, pad) ==
    [i \in 1..n |-> IF pad THEN <<SP, 16 * tag + (i - 1), SP>>
                           ELSE <<16 * tag + (i - 1)>>]

\* A row whose cells hold whitespace only.
BlankRow(n) == [i \in 1..n |-> <<SP>>]

RECURSIVE JoinCells(_)
JoinCells(cols) ==
    IF cols = <<>> THEN <<>>
    ELSE IF Len(cols) = 1 THEN cols[1]
    ELSE cols[1] \o <<SP>> \o JoinCells(Tail(cols))

\* WebElement.text of a <tr>: the visible text of the row, trimmed.
RowText(row) == Strip(JoinCells(row))

\* The page contents the environment chooses from.
PageContents ==
    <<  \* 1: a data row, a spacer row, a data row
        << MkRow(1, 10, TRUE), MkRow(2, 3, FALSE), MkRow(3, 11, FALSE) >>,
        \* 2: a nine-cell row followed by a data row
        << MkRow(4, 9, FALSE), MkRow(5, 10, TRUE) >>,
        \* 3: a first row without visible text, then a data row
        << BlankRow(2), MkRow(6, 10, FALSE) >>,
        \* 4: a table without body rows
        << >>
    >>

PageIds == 1..Len(PageContents)

\* State of the element NEXT_BUTTON locates.
Ctls == {"absent", "unclickable", "disabled", "clickable"}

\* Exception classes the browser operations raise; all derive from Exception.
Faults == {"TimeoutException", "StaleElementReferenceException",
           "WebDriverException", "RecursionError"}

\* Steps of navigate_to_most_active that wait for an element.
NavSteps == {"container", "markets", "stocks", "trending", "tab"}

\* faulty variant: the except clause of navigate_to_most_active only logs
NavigateSwallows == FALSE

\* the `raise` that ends the except clause of navigate_to_most_active
NavigateReraises == TRUE

\* ------------------------------------------------------- page extraction
\* cols[i], with the 0-based index of the source
Col(cols, i) == cols[i + 1]

\* the stock_data dictionary built from one row
StockData(cols) ==
    [symbol     |-> Strip(Col(cols, 0)),
     name       |-> Strip(Col(cols, 1)),
     price      |-> Strip(Col(cols, 3)),
     change     |-> Strip(Col(cols, 4)),
     volume     |-> Strip(Col(cols, 6)),
     market_cap |-> Strip(Col(cols, 8)),
     pe_ratio   |-> Strip(Col(cols, 9))]

\* faulty variant: a ten-cell row is skipped too
IsSkippedOffByOne(cols) == Len(cols) <= 10

\* the test that skips a row
IsSkipped(cols) == Len(cols) < 10

\* The for loop over the rows, from row i on, with the rows appended so far;
\* reading row `at` raises `kind` (at = 0: nothing raises).
RECURSIVE ScrapeLoop(_, _, _, _, _)
ScrapeLoop(rows, i, data, at, kind) ==
    IF i > Len(rows) THEN [status |-> "ok", data |-> data]
    ELSE IF i = at THEN [status |-> kind, data |-> data]
    ELSE IF IsSkipped(rows[i]) THEN ScrapeLoop(rows, i + 1, data, at, kind)
    ELSE ScrapeLoop(rows, i + 1, Append(data, StockData(rows[i])), at, kind)

\* The try block of scrape_current_page: tableFault is the exception of
\* _wait_visible(TABLE) / find_elements, or "none".
TryScrape(rows, tableFault, at, kind) ==
    IF tableFault # "none" THEN [status |-> tableFault, data |-> <<>>]
    ELSE ScrapeLoop(rows, 1, <<>>, at, kind)

\* faulty variant: the rows of the interrupted attempt are kept
RetryResultKeepsRows(interrupted, retried) == interrupted \o retried

\* `return self.scrape_current_page()` in the stale handler: the frame that
\* was interrupted returns what the nested call returned; its own list
\* `interrupted` is dropped.
RetryResult(interrupted, retried) == retried

\* faulty variant: the page's rows replace the list
ExtendReplaces(list, data) == data

\* all_data.extend(page_data)
Extend(list, data) == list \o data

\* ------------------------------------------------------------ pagination
\* first_row_check
FirstRowCheck(rows) == IF rows # <<>> THEN RowText(rows[1]) ELSE None

\* truth value of `if first_row_check:`
IsTruthy(text) == text # None /\ text # <<>>

\* faulty variant: any row counts as a change
HasTableChangedNoCompare(rows, old_first_row_text) == rows # <<>>

\* _has_table_changed
HasTableChanged(rows, old_first_row_text) ==
    IF rows = <<>> THEN FALSE ELSE RowText(rows[1]) # old_first_row_text

\* faulty variant: only `except TimeoutException` in go_to_next_page
CaughtByPaginatorTimeoutOnly(kind) == kind = "TimeoutException"

\* `except TimeoutException` and `except Exception` of go_to_next_page: the
\* exceptions it turns into the return value False
CaughtByPaginator(kind) == kind \in Faults

\* ---------------------------------------------------------------- close
\* close(): self.driver is set once in __init__ and never cleared, so the
\* test `if self.driver` holds and quit() is called; q counts the quits.
close(q) == q + 1

\* faulty variant: closing a session that is already closed raises
CloseRaisesWhenQuit(session) == session = "quit"

\* Whether close() raises, by the state of the session it is called on:
\* webdriver.Chrome.quit() discards the errors of its quit command and stops
\* a driver service that may be stopped already, so it never does.
CloseRaises(session) == FALSE

\* faulty variant: close() only after the loop ended by break
FinallyOnSuccessOnly(q, how) == IF how = "Done" THEN close(q) ELSE q

\* the finally clause of run(), entered with the outcome of the try block
Finally(q, how) == close(q)

\* faulty variant: `except TimeoutException`
CaughtByRunTimeoutOnly(kind) == kind = "TimeoutException"

\* `except Exception` of run(): which exceptions it swallows
CaughtByRun(kind) == kind \in Faults

\* ---------------------------------------------------------------- state
VARIABLES
    pc,            \* position of the generator: "start", "scrape", "yielded", "done"
    outcome,       \* "none", "Done" (loop left by break), "Faulted" (except clause)
    propagated,    \* an exception left run() towards the caller
    site,          \* tables of the pages rendered so far; the last one is displayed
    ctl,           \* state of the next control on the displayed page
    pending,       \* a click on next was triggered and its page is not rendered yet
    all_data,      \* the list all_data of run()
    page_num,      \* page_num of run()
    page_data,     \* result of the last scrape_current_page call
    scrape_status, \* how that call ended: "none", "ok", an exception it swallowed
    depth,         \* nesting depth of the running scrape_current_page call
    ret,           \* value the last go_to_next_page returned: "none", "true", "false"
    clicked,       \* that call triggered the click on the control
    wait_result,   \* its wait for the table update: "none", "changed", "timeout"
    quits,         \* number of driver.quit() calls
    events,        \* tuples handed to the caller, in order
    disturbed,     \* the environment has raised a fault in this run
    stale_data,    \* the `data` list of the frame a stale reference suspended last
    nav_failed,    \* step at which navigate_to_most_active failed, or "none"
    browser,       \* session of self.driver: "open", "quit"
    close_raised,  \* a close() called by the caller raised
    used           \* per run() invocation so far, the session it operated on

vars == << pc, outcome, propagated, site, ctl, pending, all_data, page_num,
           page_data, scrape_status, depth, ret, clicked, wait_result, quits,
           events, disturbed, stale_data, nav_failed, browser, close_raised,
           used >>

\* rows of the table the browser displays
Displayed == IF site = <<>> THEN <<>> ELSE site[Len(site)]

\* The third component of a yielded tuple is the list object all_data
\* itself, not a copy: the caller reads it through the reference.
AllDataRef == "all_data"
Deref(ref) == all_data

\* self.driver: the one session, created by webdriver.Chrome() in __init__
self_driver == "session of __init__"

Init ==
    /\ pc = "start"
    /\ outcome = "none"
    /\ propagated = FALSE
    /\ site = <<>>
    /\ ctl = "absent"
    /\ pending = FALSE
    /\ all_data = <<>>
    /\ page_num = 1
    /\ page_data = <<>>
    /\ scrape_status = "none"
    /\ depth = 0
    /\ ret = "none"
    /\ clicked = FALSE
    /\ wait_result = "none"
    /\ quits = 0
    /\ events = <<>>
    /\ disturbed = FALSE
    /\ stale_data = <<>>
    /\ nav_failed = "none"
    /\ browser = "open"
    /\ close_raised = FALSE
    /\ used = <<>>

\* -------------------------------------------------------------- actions
\* The except clause of run() followed by its finally clause, for an
\* exception of class kind raised inside the try block.
RunExcept(kind) ==
    /\ outcome' = "Faulted"
    /\ quits' = Finally(quits, "Faulted")
    /\ browser' = IF quits' > quits THEN "quit" ELSE browser
    /\ propagated' = (~CaughtByRun(kind)
                         \/ (quits' > quits /\ CloseRaises(browser)))
    /\ pc' = "done"
    /\ disturbed' = TRUE

\* navigate_to_most_active: driver.get fails on a closed session, or a wait
\* of one of its steps times out, and the exception is re-raised into run();
\* or the listing is reached and its first page rendered.
Navigate ==
    /\ pc = "start"
    /\ used' = Append(used, self_driver)
    /\ \E failed \in IF browser = "quit" THEN {"get"}
                                          ELSE NavSteps \cup {"none"} :
         /\ nav_failed' = failed
         /\ IF failed = "none"
            THEN /\ \E p \in PageIds, c \in Ctls :
                      site' = <<PageContents[p]>> /\ ctl' = c
                 /\ pc' = "scrape"
                 /\ UNCHANGED << outcome, propagated, quits, disturbed,
                                 browser >>
            ELSE IF NavigateReraises
            THEN /\ RunExcept(IF failed = "get" THEN "WebDriverException"
                                                ELSE "TimeoutException")
                 /\ UNCHANGED << site, ctl >>
            ELSE /\ pc' = "scrape"
                 /\ disturbed' = TRUE
                 /\ UNCHANGED << site, ctl, outcome, propagated, quits,
                                 browser >>
    /\ UNCHANGED << pending, all_data, page_num, page_data, scrape_status,
                    depth, ret, clicked, wait_result, events, stale_data,
                    close_raised >>

\* the tuple run() yields after a page
Progress == [pageNumber |-> page_num,
             cumulativeRowCount |-> Len(all_data'),
             rowsSoFar |-> AllDataRef]

\* scrape_current_page returns data to run(), which extends all_data and
\* yields.  Past `horizon` events the liveness specification follows the
\* control flow only and keeps the list and the event log as they are.
ScrapeReturn(interrupted, data, status, horizon) ==
    /\ page_data' = IF depth > 0 THEN RetryResult(interrupted, data)
                                 ELSE data
    /\ scrape_status' = status
    /\ depth' = 0
    /\ stale_data' = <<>>
    /\ IF Len(events) < horizon
       THEN /\ all_data' = Extend(all_data, page_data')
            /\ events' = Append(events, Progress)
       ELSE UNCHANGED << all_data, events >>
    /\ pc' = "yielded"
    /\ disturbed' = (disturbed \/ status # "ok")
    /\ UNCHANGED << outcome, propagated, quits, browser >>

\* What the browser does to one execution of the body of
\* scrape_current_page: nothing, the wait for the table times out, or the
\* read of row `at` raises a stale reference or another WebDriver error.
ScrapeInputs(rows) ==
    {[tableFault |-> "none", at |-> 0, kind |-> "none"],
     [tableFault |-> "TimeoutException", at |-> 0, kind |-> "none"]}
    \cup {[tableFault |-> "none", at |-> k, kind |-> e] :
            k \in 1..Len(rows),
            e \in {"StaleElementReferenceException", "WebDriverException"}}

\* One execution of the body of scrape_current_page.  A stale row makes it
\* call itself; at RecursionLimit the interpreter raises RecursionError,
\* either at that call (it leaves every frame and reaches run()) or inside
\* the innermost try block (swallowed there, the call returns no rows).
ScrapeCurrentPage(horizon) ==
    /\ pc = "scrape"
    /\ \E in \in ScrapeInputs(Displayed) :
         \E r \in {TryScrape(Displayed, in.tableFault, in.at, in.kind)} :
         IF r.status = "StaleElementReferenceException"
         THEN IF depth < RecursionLimit
              THEN /\ depth' = depth + 1
                   /\ stale_data' = r.data
                   /\ disturbed' = TRUE
                   /\ UNCHANGED << pc, outcome, propagated, all_data, page_data,
                                   scrape_status, quits, events, browser >>
              ELSE \E escapes \in BOOLEAN :
                     IF escapes
                     THEN /\ RunExcept("RecursionError")
                          /\ UNCHANGED << all_data, page_data, scrape_status,
                                          depth, events, stale_data >>
                     ELSE ScrapeReturn(r.data, <<>>,
                                       "RecursionError", horizon)
         ELSE ScrapeReturn(stale_data, r.data, r.status, horizon)
    /\ UNCHANGED << site, ctl, pending, page_num, ret, clicked, wait_result,
                    nav_failed, close_raised, used >>

\* The page a click on next asked for is rendered after go_to_next_page
\* returned without waiting for it.
Render ==
    /\ pending
    /\ browser = "open"
    /\ pc \in {"scrape", "yielded"}
    /\ Len(site) < MaxPages
    /\ \E p \in PageIds, c \in Ctls :
         site' = Append(site, PageContents[p]) /\ ctl' = c
    /\ pending' = FALSE
    /\ UNCHANGED << pc, outcome, propagated, all_data, page_num, page_data,
                    scrape_status, depth, ret, clicked, wait_result, quits,
                    events, disturbed, stale_data, nav_failed, browser,
                    close_raised, used >>

\* faulty variant: the class of the control is not looked at
NextPageOutcomeClicksDisabled(rows, readFault, control, after) ==
    IF readFault # "none" \/ control \in {"absent", "unclickable"}
    THEN [ret |-> FALSE, clicked |-> FALSE, wait |-> "none", raised |-> "none"]
    ELSE IF ~IsTruthy(FirstRowCheck(rows))
    THEN [ret |-> TRUE, clicked |-> TRUE, wait |-> "none", raised |-> "none"]
    ELSE IF HasTableChanged(after, FirstRowCheck(rows))
    THEN [ret |-> TRUE, clicked |-> TRUE, wait |-> "changed",
          raised |-> "none"]
    ELSE [ret |-> FALSE, clicked |-> TRUE, wait |-> "timeout",
          raised |-> "none"]

\* go_to_next_page on a table showing rows, with the exception of reading the
\* first row (or "none"), the state of the control, and the rows the table
\* shows when the wait for the update ends.  `raised` is the exception that
\* leaves the call, or "none".
NextPageOutcome(rows, readFault, control, after) ==
    IF readFault # "none"
    THEN IF CaughtByPaginator(readFault)
         THEN [ret |-> FALSE, clicked |-> FALSE, wait |-> "none",
               raised |-> "none"]
         ELSE [ret |-> FALSE, clicked |-> FALSE, wait |-> "none",
               raised |-> readFault]
    ELSE IF control \in {"absent", "unclickable"}
    THEN [ret |-> FALSE, clicked |-> FALSE, wait |-> "none", raised |-> "none"]
    ELSE IF control = "disabled"
    THEN [ret |-> FALSE, clicked |-> FALSE, wait |-> "none", raised |-> "none"]
    ELSE LET first_row_check == FirstRowCheck(rows) IN
         IF IsTruthy(first_row_check)
         THEN IF HasTableChanged(after, first_row_check)
              THEN [ret |-> TRUE, clicked |-> TRUE, wait |-> "changed",
                    raised |-> "none"]
              ELSE [ret |-> FALSE, clicked |-> TRUE, wait |-> "timeout",
                    raised |-> "none"]
         ELSE [ret |-> TRUE, clicked |-> TRUE, wait |-> "none",
               raised |-> "none"]

\* faulty variant: the counter skips a number
NextPageNumSkip(n) == n + 2

\* page_num += 1
NextPageNum(n) == n + 1

\* faulty variant: the loop is left when the paginator advanced
LoopBreaksInverted(advanced) == advanced

\* faulty variant: the return value is ignored
LoopNeverBreaks(advanced) == FALSE

\* `if not self.go_to_next_page(): break`
LoopBreaks(advanced) == ~advanced

\* What the browser does to one go_to_next_page call: reading the first row
\* raises (a stale reference needs a row; on a closed session every command
\* raises), or it does not and, the control being clicked, the next page is
\* or is not rendered before the call ends (page = 0: not rendered).
PaginationInputs ==
    IF browser = "quit"
    THEN {[readFault |-> "WebDriverException", page |-> 0, ctl |-> ctl]}
    ELSE
    {[readFault |-> "none", page |-> 0, ctl |-> ctl],
     [readFault |-> "WebDriverException", page |-> 0, ctl |-> ctl]}
    \cup {[readFault |-> "StaleElementReferenceException", page |-> 0,
           ctl |-> ctl] : x \in {y \in {1} : Displayed # <<>>}}
    \cup {[readFault |-> "none", page |-> p, ctl |-> c] :
            p \in {q \in PageIds : ctl = "clickable" /\ Len(site) < MaxPages},
            c \in Ctls}

\* The caller resumes the generator: go_to_next_page, then either break and
\* the finally clause, or page_num += 1.  With saturate the counter stops at
\* `horizon` instead of the step being cut off there.
GoToNextPage(saturate, horizon) ==
    /\ pc = "yielded"
    /\ \E in \in PaginationInputs :
         LET rows == Displayed
             didRender == in.page # 0
             after == IF didRender THEN PageContents[in.page] ELSE rows
         IN
         \E o \in {NextPageOutcome(rows, in.readFault, ctl, after)} :
           IF o.raised # "none"
           THEN /\ RunExcept(o.raised)
                /\ UNCHANGED << ret, clicked, wait_result, site, ctl, pending,
                                page_num >>
           ELSE
             /\ ret' = IF o.ret THEN "true" ELSE "false"
             /\ clicked' = o.clicked
             /\ wait_result' = o.wait
             /\ site' = IF didRender THEN Append(site, after) ELSE site
             /\ ctl' = IF didRender THEN in.ctl ELSE ctl
             /\ pending' = (o.ret /\ ~didRender)
             /\ disturbed' = (disturbed \/ in.readFault # "none")
             /\ IF ~LoopBreaks(o.ret)
                THEN /\ saturate \/ page_num < horizon
                     /\ page_num' = IF page_num < horizon
                                    THEN NextPageNum(page_num) ELSE page_num
                     /\ pc' = "scrape"
                     /\ UNCHANGED << outcome, quits, browser, propagated >>
                ELSE /\ pc' = "done"
                     /\ outcome' = "Done"
                     /\ quits' = Finally(quits, "Done")
                     /\ browser' = IF quits' > quits THEN "quit" ELSE browser
                     /\ propagated' = (quits' > quits /\ CloseRaises(browser))
                     /\ UNCHANGED page_num
    /\ UNCHANGED << all_data, page_data, scrape_status, depth, events,
                    stale_data, nav_failed, close_raised, used >>

\* The caller calls close() on the scraper while the generator is suspended
\* or has ended.
CallerClose ==
    /\ pc \in {"start", "yielded", "done"}
    /\ quits < MaxQuits
    /\ quits' = close(quits)
    /\ browser' = "quit"
    /\ close_raised' = (close_raised \/ CloseRaises(browser))
    /\ UNCHANGED << pc, outcome, propagated, site, ctl, pending, all_data,
                    page_num, page_data, scrape_status, depth, ret, clicked,
                    wait_result, events, disturbed, stale_data, nav_failed,
                    used >>

\* The caller invokes run() again on the same scraper object after the
\* previous generator has ended: fresh locals, the same self.driver.
RunAgain ==
    /\ pc = "done"
    /\ Len(used) < MaxRuns
    /\ pc' = "start"
    /\ outcome' = "none"
    /\ propagated' = FALSE
    /\ pending' = FALSE
    /\ all_data' = <<>>
    /\ page_num' = 1
    /\ page_data' = <<>>
    /\ scrape_status' = "none"
    /\ depth' = 0
    /\ stale_data' = <<>>
    /\ ret' = "none"
    /\ clicked' = FALSE
    /\ wait_result' = "none"
    /\ events' = <<>>
    /\ disturbed' = FALSE
    /\ nav_failed' = "none"
    /\ UNCHANGED << site, ctl, quits, browser, close_raised, used >>

Next ==
    \/ Navigate
    \/ ScrapeCurrentPage(MaxPageNum)
    \/ Render
    \/ GoToNextPage(FALSE, MaxPageNum)

Spec == Init /\ [][Next]_vars

\* The run together with what its caller may do to the scraper object.
NextCaller ==
    \/ Next
    \/ CallerClose
    \/ RunAgain

CallerSpec == Init /\ [][NextCaller]_vars

\* Extraction alone, on every table of up to MaxRows rows whose rows have 0,
\* 3, 9, 10 or 11 cells, padded or not: the state after a navigation that
\* displayed the table, followed by scrape_current_page.
CellCounts == {0, 3, 9, 10, 11}

TableOf(shape) == [i \in DOMAIN shape |-> MkRow(i, shape[i][1], shape[i][2])]

InitExtract ==
    /\ pc = "scrape"
    /\ \E n \in 0..MaxRows :
         \E shape \in [1..n -> CellCounts \X BOOLEAN] : site = <<TableOf(shape)>>
    /\ outcome = "none"
    /\ propagated = FALSE
    /\ ctl = "absent"
    /\ pending = FALSE
    /\ all_data = <<>>
    /\ page_num = 1
    /\ page_data = <<>>
    /\ scrape_status = "none"
    /\ depth = 0
    /\ ret = "none"
    /\ clicked = FALSE
    /\ wait_result = "none"
    /\ quits = 0
    /\ events = <<>>
    /\ disturbed = FALSE
    /\ stale_data = <<>>
    /\ nav_failed = "none"
    /\ browser = "open"
    /\ close_raised = FALSE
    /\ used = <<self_driver>>

ExtractSpec == InitExtract /\ [][ScrapeCurrentPage(MaxPageNum)]_vars

\* The caller iterates the generator to its end and every browser call
\* returns or times out, so the generator always takes its next step; the
\* environment owes no rendering.
Step ==
    \/ Navigate
    \/ ScrapeCurrentPage(LiveHorizon)
    \/ GoToNextPage(TRUE, LiveHorizon)

NextLive ==
    \/ Step
    \/ Render

LiveSpec == Init /\ [][NextLive]_vars /\ WF_vars(Step)

\* --------------------------------------------------------------- claims
Last(seq) == seq[Len(seq)]

IsPrefix(a, b) == Len(a) <= Len(b) /\ SubSeq(b, 1, Len(a)) = a

\* C1: whichever terminal state run() reaches, Done or Faulted, the browser
\* quit has been performed exactly once by then, and never before the run
\* ends.
C1_ClosedExactlyOnce ==
    /\ pc = "done" => outcome \in {"Done", "Faulted"} /\ quits = 1
    /\ pc # "done" => outcome = "none" /\ quits = 0

C1_Witness ==
    /\ pc = "done"
    /\ outcome = "Faulted"
    /\ events # <<>>
    /\ quits = 1

\* C2: every run terminates: whatever the page does, run() eventually
\* reaches Done or Faulted (with the session closed), so it emits finitely
\* many events.
C2_RunTerminates == <>(pc = "done" /\ quits = 1)

\* C3: the events' page numbers start at 1 and go up by one from event to
\* event, their row counts never go down, and page_num changes exactly in
\* the steps in which go_to_next_page returned true, by exactly 1.
C3_PageNumbering ==
    /\ [](\A i \in 1..Len(events) :
            /\ events[i].pageNumber = i
            /\ i > 1 => events[i].cumulativeRowCount >=
                        events[i - 1].cumulativeRowCount)
    /\ [][/\ IF pc = "yielded" /\ pc' = "scrape" /\ ret' = "true"
             THEN page_num' = page_num + 1
             ELSE page_num' = page_num
          /\ events' # events => Last(events').pageNumber = page_num]_vars

C3_Witness ==
    /\ Len(events) >= 3
    /\ events[3].pageNumber = 3
    /\ events[2].cumulativeRowCount = events[1].cumulativeRowCount
    /\ events[3].cumulativeRowCount > events[2].cumulativeRowCount

\* the rows of a table that yield a record
ValidRows(rows) == {i \in 1..Len(rows) : Len(rows[i]) >= 10}

\* The pages rendered form a listing as C4 describes it: every page has a
\* row of at least ten cells, the first rows' texts differ from page to
\* page, and the next control of the last page is unavailable.
C4_Listing ==
    /\ site # <<>>
    /\ \A i \in 1..Len(site) :
         /\ ValidRows(site[i]) # {}
         /\ \A j \in 1..Len(site) :
              i # j => FirstRowCheck(site[i]) # FirstRowCheck(site[j])
    /\ ctl \in {"absent", "unclickable", "disabled"}

\* C4: a run over such a listing of N pages, with no fault raised by the
\* browser, ends having emitted exactly N events, numbered 1..N, with
\* strictly increasing row counts.
C4_OneEventPerPage ==
    (pc = "done" /\ outcome = "Done" /\ ~disturbed /\ ~pending /\ C4_Listing)
    => /\ Len(events) = Len(site)
       /\ \A i \in 1..Len(events) :
            /\ events[i].pageNumber = i
            /\ i > 1 => events[i].cumulativeRowCount >
                        events[i - 1].cumulativeRowCount

\* C5: when the next control is absent as the paginator is invoked,
\* go_to_next_page returns false without a click, the run ends in Done, and
\* the list keeps every row: its length is the count of the last event.
C5_AbsentControlEndsRun ==
    [][(pc = "yielded" /\ ctl = "absent" /\ pc' # pc)
       => /\ ret' = "false"
          /\ clicked' = FALSE
          /\ pc' = "done"
          /\ outcome' = "Done"
          /\ ~propagated'
          /\ events' = events
          /\ all_data' = all_data
          /\ Len(all_data') = Last(events').cumulativeRowCount]_vars

C5_Witness ==
    /\ pc = "done"
    /\ outcome = "Done"
    /\ ctl = "absent"
    /\ ret = "false"
    /\ ~disturbed
    /\ Len(events) >= 2
    /\ Len(all_data) = Last(events).cumulativeRowCount
    /\ Len(all_data) >= 2

Rank(rows, i) == Cardinality({j \in 1..i : Len(rows[j]) >= 10})

\* C7: a scrape_current_page call that completes on a table returns one
\* record per row of at least ten cells, in the rows' order and nothing
\* else, each record holding the trimmed texts of cells 0,1,3,4,6,8,9.
C7_ExtractsValidRowsInOrder ==
    [][(pc = "scrape" /\ pc' = "yielded" /\ scrape_status' = "ok")
       => LET rows == Displayed IN
          /\ Len(page_data') = Rank(rows, Len(rows))
          /\ \A i \in 1..Len(rows) :
               Len(rows[i]) >= 10 =>
                 page_data'[Rank(rows, i)] =
                   [symbol     |-> Strip(rows[i][1]),
                    name       |-> Strip(rows[i][2]),
                    price      |-> Strip(rows[i][4]),
                    change     |-> Strip(rows[i][5]),
                    volume     |-> Strip(rows[i][7]),
                    market_cap |-> Strip(rows[i][9]),
                    pe_ratio   |-> Strip(rows[i][10])]]_vars

C7_Witness ==
    /\ pc = "yielded"
    /\ scrape_status = "ok"
    /\ ~pending
    /\ Displayed = PageContents[1]
    /\ Len(page_data) = 2
    /\ page_data[1].symbol = <<16>>
    /\ page_data[2].price = <<51>>

\* C8: no exception leaves run(): a fault ends the event stream with the
\* generator finished, and the rows handed out before stay in the list,
\* which only ever grows at its end.
C8_NoFaultEscapes ==
    /\ [](~propagated)
    /\ [][/\ IsPrefix(all_data, all_data')
          /\ outcome' = "Faulted" /\ outcome # "Faulted"
               => pc' = "done" /\ events' = events]_vars

C8_Witness ==
    /\ pc = "done"
    /\ outcome = "Faulted"
    /\ ~propagated
    /\ events # <<>>
    /\ Len(all_data) > 0
    /\ Last(events).cumulativeRowCount = Len(all_data)

\* C9: extraction retries a stale page at most 3 times, and once it gives up
\* on staleness the run is stopped (Faulted) with the rows of the earlier
\* pages.
C9_BoundedStaleRetry ==
    /\ depth <= 3
    /\ scrape_status = "RecursionError" => pc = "done" /\ outcome = "Faulted"

\* C10: the rowsSoFar of every event handed to the caller still holds
\* exactly the cumulativeRowCount rows it was emitted with.
C10_EventsImmutable ==
    \A i \in 1..Len(events) :
        Len(Deref(events[i].rowsSoFar)) = events[i].cumulativeRowCount

C12_RunOwnsSession ==
    \A i, j \in 1..Len(used) : i # j => used[i] # used[j]

\* C13: when a step of navigate_to_most_active fails (the container, the
\* Markets or the Stocks menu never visible, the Trending item or the
\* Most-Active tab never clickable), the run is over: scrape_current_page and
\* go_to_next_page have not been called, no event has been yielded, nothing
\* was raised to the caller, and the session has been closed.
C13_NavigationFailureAborts ==
    nav_failed \in NavSteps
        => /\ pc = "done" /\ outcome = "Faulted" /\ ~propagated
           /\ scrape_status = "none" /\ depth = 0 /\ page_data = <<>>
           /\ ret = "none" /\ ~clicked /\ wait_result = "none"
           /\ events = <<>> /\ all_data = <<>>
           /\ quits = 1 /\ browser = "quit"

C13_Witness ==
    /\ nav_failed = "tab"
    /\ pc = "done"
    /\ quits = 1
    /\ events = <<>>

\* C14: when the table had a row as go_to_next_page was called (a fingerprint
\* was captured, whatever its text) and the call returns True, the text of
\* the first row at the return differs from that fingerprint.
C14_AdvanceConfirmed ==
    [][pc = "yielded" /\ pc' = "scrape" /\ ret' = "true" /\ Displayed # <<>>
         => /\ Displayed' # <<>>
            /\ RowText(Displayed'[1]) # FirstRowCheck(Displayed)]_vars

\* C15: after a fault other than a stale reference was raised during the
\* extraction of a page, go_to_next_page is not called any more and no
\* further page is scraped or reported.
C15_ExtractionFaultTerminates ==
    [][pc = "yielded"
         /\ scrape_status \in {"TimeoutException", "WebDriverException"}
         => /\ pc' # "scrape"
            /\ ret' = ret /\ clicked' = clicked /\ wait_result' = wait_result
            /\ events' = events]_vars

\* C16: go_to_next_page returns True only after it triggered the click on
\* the next control; when the control is absent, never clickable or marked
\* disabled, it returns False, triggers no click and the displayed table
\* stays as it was.
C16_TrueOnlyAfterClick ==
    [][pc = "yielded" /\ pc' # "yielded"
         => /\ ret' = "true" => clicked'
            /\ ctl \in {"absent", "unclickable", "disabled"}
                 => ret' = "false" /\ ~clicked' /\ site' = site]_vars

C16_Witness ==
    /\ pc = "done"
    /\ outcome = "Done"
    /\ ctl = "disabled"
    /\ ret = "false"
    /\ ~clicked
    /\ ~disturbed
    /\ Len(events) = 2

\* C17: a run goes Init, Navigating, ScrapingPage, (Paginating,
\* ScrapingPage)*, then ends.  navigate_to_most_active is called once, before
\* any extraction; go_to_next_page is only called after the page was
\* extracted and its event yielded; every extraction after the first follows
\* a go_to_next_page call that returned True.
C17_RunOrder ==
    /\ [](/\ pc = "start" <=> used = <<>>
          /\ Len(used) <= 1
          /\ (pc \in {"scrape", "yielded"} \/ scrape_status # "none")
                => nav_failed = "none" /\ used # <<>>
          /\ pc = "scrape" /\ page_num > 1 => ret = "true")
    /\ [][/\ pc' # pc
               => \/ pc = "start" /\ pc' \in {"scrape", "done"}
                  \/ pc = "scrape" /\ pc' \in {"yielded", "done"}
                  \/ pc = "yielded" /\ pc' \in {"scrape", "done"}
          /\ pc = "start" /\ pc' = "scrape"
               => page_num' = 1 /\ events' = <<>> /\ scrape_status' = "none"
          /\ pc = "yielded" /\ pc' # pc
               => /\ scrape_status # "none"
                  /\ events # <<>>
                  /\ Last(events).pageNumber = page_num
                  /\ Len(events) = page_num
          /\ pc = "yielded" /\ pc' = "scrape"
               => ret' = "true" /\ page_num' = page_num + 1]_vars

C17_Witness ==
    /\ pc = "scrape"
    /\ page_num = 3
    /\ ret = "true"
    /\ Len(events) = 2
    /\ Len(used) = 1

\* C18: when the caller has closed the session while the generator was
\* suspended at a yield, resuming it ends the run without an exception
\* reaching the caller: go_to_next_page fails at its first browser command
\* and returns False without a click, no further event is yielded, and the
\* list handed out keeps its rows.
C18_CloseBetweenEventsEndsRun ==
    [][pc = "yielded" /\ browser = "quit" /\ pc' # pc
         => /\ pc' = "done" /\ ~propagated'
            /\ ret' = "false" /\ ~clicked' /\ wait_result' = "none"
            /\ events' = events
            /\ all_data' = all_data
            /\ Deref(Last(events').rowsSoFar) = all_data]_vars

C18_Witness ==
    /\ pc = "yielded"
    /\ browser = "quit"
    /\ quits = 1
    /\ Len(events) = 2
    /\ all_data # <<>>

\* C19: each event carries, as cumulativeRowCount, the length all_data has
\* when the event is yielded, and as pageNumber its position in the stream;
\* all_data at that moment is all_data of the previous event followed by the
\* rows extracted for this page, and it changes at no other moment: so it is
\* the concatenation, in page order, of the extraction results so far.
C19_CountAndConcatenation ==
    /\ [](events = <<>> => all_data = <<>>)
    /\ [][/\ events' # events
               => /\ events' = Append(events, Last(events'))
                  /\ Last(events').pageNumber = Len(events')
                  /\ Last(events').cumulativeRowCount = Len(all_data')
                  /\ Deref(Last(events').rowsSoFar)' = all_data'
                  /\ all_data' = all_data \o page_data'
          /\ events' = events => all_data' = all_data]_vars

C19_Witness ==
    /\ pc = "yielded"
    /\ Len(events) = 2
    /\ events[1].cumulativeRowCount = 2
    /\ events[2].cumulativeRowCount = 3
    /\ Len(page_data) = 1
    /\ Len(all_data) = 3

\* C20: a scrape_current_page call that went through stale-reference retries
\* returns rows of its last attempt only: its result is an initial part of
\* the table's records, in the rows' order, without the rows the interrupted
\* attempts had read, so no row occurs twice in it.
C20_RetryDiscardsInterruptedRows ==
    [][(pc = "scrape" /\ pc' = "yielded" /\ depth > 0)
       => LET rows == Displayed IN
          /\ Len(page_data') <= Rank(rows, Len(rows))
          /\ scrape_status' = "ok" => Len(page_data') = Rank(rows, Len(rows))
          /\ \A i \in 1..Len(rows) :
               Len(rows[i]) >= 10 /\ Rank(rows, i) <= Len(page_data')
                 => page_data'[Rank(rows, i)] = StockData(rows[i])
          /\ \A a, b \in 1..Len(page_data') :
               a # b => page_data'[a] # page_data'[b]]_vars

C20_Witness ==
    /\ pc = "yielded"
    /\ scrape_status = "ok"
    /\ disturbed
    /\ Len(Displayed) = 3
    /\ Len(page_data) = 3
    /\ page_data[1] # page_data[2]
====
